---- MODULE Spec2Model ----
(***************************************************************************)
(* Model of the architecture generator's components: the TemplateUpload    *)
(* dialog and its placeholder extraction, the ArchitectureGenerator         *)
(* (both in src/src/components/TemplateUpload.tsx), the OutputViewer and    *)
(* the PlantUMLEditor.  Texts are sequences of one-character strings;       *)
(* positions are JavaScript's 0-based indices.                              *)
(***************************************************************************)
EXTENDS Integers, Sequences, FiniteSets, TLC

VARIABLES
    templateContent,    \* useState(defaultTemplate), line 54
    pc,                 \* "loop": inside extractPlaceholders' while loop; "done": it returned
    template,           \* the argument of the running / last call of extractPlaceholders
    lastIndex,          \* regex.lastIndex of the call's RegExp object
    placeholders,       \* the call's Set<string>, in insertion order
    occurrences,        \* history: the matches regex.exec returned during the call
    shownPlaceholders,  \* const placeholders of the render (line 115)
    memo,               \* observer: one earlier call's argument and result
    isDialogOpen,       \* TemplateUpload: useState(false), line 53
    uploadedFile,       \* TemplateUpload: useState<File | null>(null), line 55
    reading,            \* the FileReaders whose readAsText has not yet ended (lines 75-81)
    toasts,             \* the toasts of the latest handler that showed any
    prompt,             \* ArchitectureGenerator: useState(""), line 232
    appliedTemplate,    \* ArchitectureGenerator: its state "template", line 233
    isGenerating,       \* ArchitectureGenerator: useState(false), line 234
    result,             \* ArchitectureGenerator: useState<GenerationResult | null>(null), line 235
    generations,        \* the calls of handleGenerate waiting at line 252
    pendingAtReset,     \* history: how many of them waited when Reset was clicked last
    container,          \* OutputViewer: the div of mermaidRef and its innerHTML
    renders,            \* OutputViewer: the calls of renderDiagram waiting at line 47
    escaped,            \* history: an error left a handler or a callback uncaught
    editorMounted,      \* PlantUMLEditor: its effects have run
    plantUMLCode,       \* PlantUMLEditor: useState(DEFAULT_PLANTUML), line 26
    diagramUrl,         \* PlantUMLEditor: useState(''), line 27
    isRendering,        \* PlantUMLEditor: useState(false), line 30
    timers,             \* PlantUMLEditor: the pending timers of line 47
    exportRun,          \* the export the user triggered last and how far it is
    savedDiagrams,      \* PlantUMLEditor: useState<Diagram[]>([]), line 28
    currentDiagramName, \* PlantUMLEditor: useState(''), line 29
    storage,            \* localStorage: the item 'plantuml-diagrams'
    clock,              \* the instant Date.now() returns
    copiedStates,       \* OutputViewer: useState({}), line 22
    copying,            \* the calls of handleCopy waiting at line 66
    copyTimers,         \* OutputViewer: the pending timers of line 74
    examples,           \* ExamplePrompts: useState(defaultExamples), line 56
    isExampleDialogOpen,\* ExamplePrompts: useState(false), line 57
    newExample          \* ExamplePrompts: the form of the dialog, lines 58-63

extractVars == <<templateContent, pc, template, lastIndex, placeholders, occurrences,
                 shownPlaceholders, memo>>

dialogVars == <<isDialogOpen, uploadedFile, reading>>

generatorVars == <<prompt, appliedTemplate, isGenerating, result, generations,
                   pendingAtReset>>

viewerVars == <<container, renders>>

editorVars == <<editorMounted, plantUMLCode, diagramUrl, isRendering, timers>>

libraryVars == <<savedDiagrams, currentDiagramName, storage, clock>>

copyVars == <<copiedStates, copying, copyTimers>>

exampleVars == <<examples, isExampleDialogOpen, newExample>>

\* the saved diagrams, the copy indicators and the example prompts
sideVars == <<libraryVars, copyVars, exampleVars>>

\* the state outside the call of extractPlaceholders
appVars == <<dialogVars, toasts, generatorVars, viewerVars, escaped, editorVars, exportRun,
             sideVars>>

vars == <<extractVars, appVars>>

(***************************************************************************)
(* Bounds of the model.                                                     *)
(***************************************************************************)
\* number of pieces an edited template text is made of
MaxPieces == 3
\* number of pieces of a template text in the specification that observes
\* pairs of calls
MaxCallPieces == 1

(***************************************************************************)
(* The default template, lines 15-50, character by character.               *)
(***************************************************************************)
DefaultTemplate ==
       <<"#", " ", "S", "y", "s", "t", "e", "m", " ", "A", "r", "c", "h", "i", "t", "e", "c", "t", "u", "r", "e", ":", " ", "{", "{", " ", "s", "y", "s", "t", "e", "m", "_", "n", "a", "m", "e", " ", "}", "}", "\n">> \o
       <<"\n">> \o
       <<"#", "#", " ", "O", "v", "e", "r", "v", "i", "e", "w", "\n">> \o
       <<"{", "{", " ", "o", "v", "e", "r", "v", "i", "e", "w", " ", "}", "}", "\n">> \o
       <<"\n">> \o
       <<"#", "#", " ", "S", "y", "s", "t", "e", "m", " ", "R", "e", "q", "u", "i", "r", "e", "m", "e", "n", "t", "s", "\n">> \o
       <<"{", "{", " ", "r", "e", "q", "u", "i", "r", "e", "m", "e", "n", "t", "s", " ", "}", "}", "\n">> \o
       <<"\n">> \o
       <<"#", "#", " ", "A", "r", "c", "h", "i", "t", "e", "c", "t", "u", "r", "e", " ", "C", "o", "m", "p", "o", "n", "e", "n", "t", "s", "\n">> \o
       <<"\n">> \o
       <<"#", "#", "#", " ", "F", "r", "o", "n", "t", "e", "n", "d", "\n">> \o
       <<"{", "{", " ", "f", "r", "o", "n", "t", "e", "n", "d", "_", "d", "e", "t", "a", "i", "l", "s", " ", "}", "}", "\n">> \o
       <<"\n">> \o
       <<"#", "#", "#", " ", "B", "a", "c", "k", "e", "n", "d", " ", "S", "e", "r", "v", "i", "c", "e", "s", "\n">> \o
       <<"{", "{", " ", "b", "a", "c", "k", "e", "n", "d", "_", "d", "e", "t", "a", "i", "l", "s", " ", "}", "}", "\n">> \o
       <<"\n">> \o
       <<"#", "#", "#", " ", "D", "a", "t", "a", "b", "a", "s", "e", " ", "L", "a", "y", "e", "r", "\n">> \o
       <<"{", "{", " ", "d", "a", "t", "a", "b", "a", "s", "e", "_", "d", "e", "t", "a", "i", "l", "s", " ", "}", "}", "\n">> \o
       <<"\n">> \o
       <<"#", "#", "#", " ", "E", "x", "t", "e", "r", "n", "a", "l", " ", "I", "n", "t", "e", "g", "r", "a", "t", "i", "o", "n", "s", "\n">> \o
       <<"{", "{", " ", "i", "n", "t", "e", "g", "r", "a", "t", "i", "o", "n", "s", " ", "}", "}", "\n">> \o
       <<"\n">> \o
       <<"#", "#", " ", "T", "e", "c", "h", "n", "o", "l", "o", "g", "y", " ", "S", "t", "a", "c", "k", "\n">> \o
       <<"{", "{", " ", "t", "e", "c", "h", "_", "s", "t", "a", "c", "k", " ", "}", "}", "\n">> \o
       <<"\n">> \o
       <<"#", "#", " ", "S", "e", "c", "u", "r", "i", "t", "y", " ", "C", "o", "n", "s", "i", "d", "e", "r", "a", "t", "i", "o", "n", "s", "\n">> \o
       <<"{", "{", " ", "s", "e", "c", "u", "r", "i", "t", "y", " ", "}", "}", "\n">> \o
       <<"\n">> \o
       <<"#", "#", " ", "S", "c", "a", "l", "a", "b", "i", "l", "i", "t", "y", " ", "&", " ", "P", "e", "r", "f", "o", "r", "m", "a", "n", "c", "e", "\n">> \o
       <<"{", "{", " ", "s", "c", "a", "l", "a", "b", "i", "l", "i", "t", "y", " ", "}", "}", "\n">> \o
       <<"\n">> \o
       <<"#", "#", " ", "D", "e", "p", "l", "o", "y", "m", "e", "n", "t", " ", "S", "t", "r", "a", "t", "e", "g", "y", "\n">> \o
       <<"{", "{", " ", "d", "e", "p", "l", "o", "y", "m", "e", "n", "t", " ", "}", "}", "\n">> \o
       <<"\n">> \o
       <<"#", "#", " ", "M", "o", "n", "i", "t", "o", "r", "i", "n", "g", " ", "&", " ", "L", "o", "g", "g", "i", "n", "g", "\n">> \o
       <<"{", "{", " ", "m", "o", "n", "i", "t", "o", "r", "i", "n", "g", " ", "}", "}">>

(***************************************************************************)
(* Character classes of the regular expression /\{\{\s*([^}]+)\s*\}\}/g.    *)
(***************************************************************************)
\* the characters \s matches and trim() strips that a model text can hold
WhiteSpace == {" ", "\t", "\n", "\r", "\f"}

\* template.charAt(i): "" outside the text
CharAt(t, i) == IF i >= 0 /\ i < Len(t) THEN t[i + 1] ELSE ""

IsSpace(c) == c \in WhiteSpace

\* a regular expression that captures with (.+): any character but a line
\* terminator
IsAnyChar(c) == c # "" /\ c \notin {"\n", "\r"}

\* [^}]: any character but "}"
IsNameChar(c) == c # "" /\ c # "}"

\* \{\{ at position i
OpensAt(t, i) == CharAt(t, i) = "{" /\ CharAt(t, i + 1) = "{"

\* a regular expression that closes with a single \}
ClosesAtOneBrace(t, i) == CharAt(t, i) = "}"

\* \}\} at position i
ClosesAt(t, i) == CharAt(t, i) = "}" /\ CharAt(t, i + 1) = "}"

RECURSIVE SpaceRun(_, _)
\* the longest run \s* can take from position i
SpaceRun(t, i) == IF IsSpace(CharAt(t, i)) THEN 1 + SpaceRun(t, i + 1) ELSE 0

RECURSIVE NameRun(_, _)
\* the longest run [^}]+ can take from position i
NameRun(t, i) == IF IsNameChar(CharAt(t, i)) THEN 1 + NameRun(t, i + 1) ELSE 0

\* a possessive \s*, which never gives a character back
LeadingPossessive(n) == {n}

\* the lengths the leading \s* can end up with: greedy, gives back down to 0
LeadingChoices(n) == 0..n

\* A group ([^}]*), which also matches nothing.
AttemptsEmptyGroup(t, i) ==
    IF ~OpensAt(t, i) THEN {}
    ELSE UNION { UNION { { <<k, m, w>> :
                             w \in { x \in 0..SpaceRun(t, i + 2 + k + m) :
                                       ClosesAt(t, i + 2 + k + m + x) } } :
                         m \in 0..NameRun(t, i + 2 + k) } :
                 k \in LeadingChoices(SpaceRun(t, i + 2)) }

\* Every way the pattern matches at position i: <<k, m, w>> are the lengths of
\* the leading \s*, of the group [^}]+ and of the trailing \s*.
Attempts(t, i) ==
    IF ~OpensAt(t, i) THEN {}
    ELSE UNION { UNION { { <<k, m, w>> :
                             w \in { x \in 0..SpaceRun(t, i + 2 + k + m) :
                                       ClosesAt(t, i + 2 + k + m + x) } } :
                         m \in 1..NameRun(t, i + 2 + k) } :
                 k \in LeadingChoices(SpaceRun(t, i + 2)) }

\* Backtracking tries the longer length of an earlier quantifier first.
Prefers(a, b) ==
    \/ a[1] > b[1]
    \/ a[1] = b[1] /\ a[2] > b[2]
    \/ a[1] = b[1] /\ a[2] = b[2] /\ a[3] >= b[3]

NoMatch == [found |-> FALSE, index |-> 0, end |-> 0, group |-> <<>>]

\* The match at position i whose attempts are the not empty set A:
\* index = match.index, end = index + match[0].length, group = match[1].
MatchOf(t, i, A) ==
    CHOOSE r \in
        { [found |-> TRUE,
           index |-> i,
           end   |-> i + 2 + a[1] + a[2] + a[3] + 2,
           group |-> SubSeq(t, i + 2 + a[1] + 1, i + 2 + a[1] + a[2])] :
          a \in { x \in A : \A y \in A : Prefers(x, y) } } :
        TRUE

RECURSIVE ExecFrom(_, _)
\* The matcher tries the start positions from i on, in increasing order; the
\* attempts at a position and the next position are computed once.
ExecFrom(t, i) ==
    IF i >= Len(t) THEN NoMatch
    ELSE CHOOSE r \in
            { IF A # {} THEN MatchOf(t, i, A) ELSE ExecFrom(t, j) :
              A \in { Attempts(t, i) }, j \in { i + 1 } } :
            TRUE

\* regex.exec(t) with regex.lastIndex = li: the leftmost match at or after li,
\* or null.
RegexExec(t, li) == ExecFrom(t, li)

\* a regular expression without the g flag: exec leaves lastIndex alone
LastIndexNotGlobal(li, m) == li

\* regex.lastIndex after exec returned m (g flag): the end of the match, 0
\* after null
LastIndexAfter(li, m) == IF m.found THEN m.end ELSE 0

\* match[1] used as it is, without .trim()
NoTrim(s) == s

RECURSIVE Trim(_)
\* String.prototype.trim
Trim(s) ==
    IF s = <<>> THEN s
    ELSE IF IsSpace(Head(s)) THEN Trim(Tail(s))
    ELSE IF IsSpace(s[Len(s)]) THEN Trim(SubSeq(s, 1, Len(s) - 1))
    ELSE s

\* an array's push: no check for an equal element
ArrayPush(s, x) == Append(s, x)

\* Set.prototype.add on a Set kept in insertion order
SetAdd(s, x) == IF \E i \in 1..Len(s) : s[i] = x THEN s ELSE Append(s, x)

(***************************************************************************)
(* Template texts the user can put into the textarea.                       *)
(***************************************************************************)
Pieces ==
    { <<"{", "{">>, <<"}", "}">>, <<"{">>, <<"}">>, <<" ">>, <<"a">>, <<"b">>,
      <<"{", "{", "a", "}", "}">>, <<"{", "{", " ", "a", " ", "}", "}">>,
      <<"{", "{", "b", "}", "}">> }

RECURSIVE TextsOf(_)
TextsOf(n) ==
    IF n = 0 THEN { <<>> }
    ELSE LET S == TextsOf(n - 1) IN S \cup { s \o p : s \in S, p \in Pieces }

\* "{{b}} {{a}} {{b}}"
ExampleOrder ==
    <<"{", "{", "b", "}", "}", " ", "{", "{", "a", "}", "}", " ",
      "{", "{", "b", "}", "}">>
\* "{{ name }}"
ExampleSpacedName == <<"{", "{", " ", "n", "a", "m", "e", " ", "}", "}">>
\* "{{name}}"
ExampleName == <<"{", "{", "n", "a", "m", "e", "}", "}">>
\* "{{ {{inner}} }}"
ExampleNested ==
    <<"{", "{", " ", "{", "{", "i", "n", "n", "e", "r", "}", "}", " ", "}", "}">>
\* "{{   }}"
ExampleBlankName == <<"{", "{", " ", " ", " ", "}", "}">>

Examples ==
    { ExampleOrder, ExampleSpacedName, ExampleName, ExampleNested, ExampleBlankName }

\* contents of the files the user uploads
FileContents == Examples \cup { DefaultTemplate }

Texts == TextsOf(MaxPieces) \cup FileContents

CallTexts == TextsOf(MaxCallPieces) \cup { DefaultTemplate }

(***************************************************************************)
(* Values of the components' state.                                         *)
(***************************************************************************)
\* null and a non-null value of a "string | null" state
Null == [isNull |-> TRUE, value |-> <<>>]
Some(v) == [isNull |-> FALSE, value |-> v]

\* "File | null": no file
NoFile == [name |-> <<>>, type |-> "null", content |-> <<>>]

\* "GenerationResult | null": no result
NoResult == [isNull |-> TRUE, document |-> <<>>, diagram |-> ""]

\* OutputViewer is not rendered: there is no div for mermaidRef
Unmounted == <<"unmounted">>

\* lines 13-16 of PlantUMLEditor.tsx
DEFAULT_PLANTUML == "@startuml Alice -> Bob: Hello Bob -> Alice: Hi there! @enduml"

\* no export has been triggered
NoExport == [component |-> "", kind |-> "", stage |-> "none", notice |-> "none"]

\* Date.now() when the page is loaded: a number of milliseconds far above the
\* ids of the default examples
StartInstant == 1700000000

\* the keys of copiedStates (OutputViewer.tsx lines 280, 308)
CopyTypes == { "Diagram", "Raw Code" }

\* copiedStates as the buttons read it (lines 282, 310): TRUE for a key whose
\* value is true, FALSE for a key that is false or absent
NothingCopied == [t \in CopyTypes |-> FALSE]

\* defaultExamples (ExamplePrompts lines 24-53): an id and the tags are texts
\* character by character, as the ids and tags the component computes are
DefaultExamples ==
    <<
      [id |-> <<"1">>,
       title |-> "E-commerce Platform",
       description |-> "Modern e-commerce with microservices",
       prompt |-> "E-commerce platform with microservices architecture, user authentication, product catalog, shopping cart, payment processing, order management, inventory tracking, and real-time notifications. Include CDN for static assets and Redis for session management.",
       tags |-> << <<"m", "i", "c", "r", "o", "s", "e", "r", "v", "i", "c", "e", "s">>,
                <<"e", "-", "c", "o", "m", "m", "e", "r", "c", "e">>,
                <<"s", "c", "a", "l", "a", "b", "l", "e">> >>],
      [id |-> <<"2">>,
       title |-> "Chat Application",
       description |-> "Real-time messaging platform",
       prompt |-> "Real-time chat application supporting multiple channels, direct messages, file sharing, emoji reactions, user presence indicators, message history, and push notifications. Use WebSocket connections and implement horizontal scaling.",
       tags |-> << <<"r", "e", "a", "l", "-", "t", "i", "m", "e">>,
                <<"w", "e", "b", "s", "o", "c", "k", "e", "t", "s">>,
                <<"s", "o", "c", "i", "a", "l">> >>],
      [id |-> <<"3">>,
       title |-> "Video Streaming",
       description |-> "Netflix-like streaming service",
       prompt |-> "Video streaming platform with content management, user subscriptions, recommendation engine using machine learning, video transcoding pipeline, CDN distribution, user analytics, and adaptive bitrate streaming.",
       tags |-> << <<"s", "t", "r", "e", "a", "m", "i", "n", "g">>,
                <<"M", "L">>,
                <<"m", "e", "d", "i", "a">> >>],
      [id |-> <<"4">>,
       title |-> "IoT Monitoring",
       description |-> "Industrial IoT data platform",
       prompt |-> "IoT data collection and monitoring system for industrial sensors, real-time data processing, time-series database, alerting system, dashboard for visualization, edge computing capabilities, and device management.",
       tags |-> << <<"I", "o", "T">>,
                <<"r", "e", "a", "l", "-", "t", "i", "m", "e">>,
                <<"m", "o", "n", "i", "t", "o", "r", "i", "n", "g">> >>]
    >>

\* the empty form (lines 58-63, 86)
EmptyExample == [title |-> "", description |-> "", prompt |-> "", tags |-> <<>>]

\* The state of the components after construction (TemplateUpload.tsx lines
\* 53-55, 232-235; OutputViewer.tsx lines 21-22; PlantUMLEditor.tsx lines
\* 26-30; ExamplePrompts lines 56-63).
InitApp ==
    /\ savedDiagrams = <<>>
    /\ currentDiagramName = <<>>
    /\ storage = Null
    /\ clock = StartInstant
    /\ copiedStates = NothingCopied
    /\ copying = <<>>
    /\ copyTimers = <<>>
    /\ examples = DefaultExamples
    /\ isExampleDialogOpen = FALSE
    /\ newExample = EmptyExample
    /\ isDialogOpen = FALSE
    /\ uploadedFile = NoFile
    /\ reading = <<>>
    /\ toasts = <<>>
    /\ prompt = <<>>
    /\ appliedTemplate = Null
    /\ isGenerating = FALSE
    /\ result = NoResult
    /\ generations = <<>>
    /\ pendingAtReset = 0
    /\ container = Unmounted
    /\ renders = <<>>
    /\ escaped = FALSE
    /\ editorMounted = FALSE
    /\ plantUMLCode = DEFAULT_PLANTUML
    /\ diagramUrl = <<>>
    /\ isRendering = FALSE
    /\ timers = {}
    /\ exportRun = NoExport

(***************************************************************************)
(* The dialog: the render calls extractPlaceholders(templateContent).       *)
(***************************************************************************)
NoMemo == [set |-> FALSE, template |-> <<>>, result |-> <<>>, between |-> FALSE]

\* The component is constructed with the default template and its first
\* render has entered extractPlaceholders (lines 54, 115, 104-106).
Init ==
    /\ templateContent = DefaultTemplate
    /\ pc = "loop"
    /\ template = DefaultTemplate
    /\ lastIndex = 0
    /\ placeholders = <<>>
    /\ occurrences = {}
    /\ shownPlaceholders = <<>>
    /\ memo = NoMemo
    /\ InitApp

\* A Set declared outside extractPlaceholders: the next call adds to the
\* names of the calls before it.
SetTemplateContentSharedSet(t) ==
    /\ pc = "done"
    /\ templateContent' = t
    /\ template' = t
    /\ lastIndex' = 0
    /\ placeholders' = placeholders
    /\ occurrences' = {}
    /\ shownPlaceholders' = <<>>
    /\ pc' = "loop"
    /\ UNCHANGED memo

\* Textarea onChange (line 173) or reader.onload (lines 76-80) sets
\* templateContent; the component renders again and line 115 calls
\* extractPlaceholders with a new RegExp (lastIndex 0) and a new Set.
\* t = templateContent is a render caused by another state change.
SetTemplateContent(t) ==
    /\ pc = "done"
    /\ templateContent' = t
    /\ template' = t
    /\ lastIndex' = 0
    /\ placeholders' = <<>>
    /\ occurrences' = {}
    /\ shownPlaceholders' = <<>>
    /\ pc' = "loop"
    /\ UNCHANGED memo

\* One iteration of the while loop (lines 108-110): exec returned a match.
ExecMatch ==
    /\ pc = "loop"
    /\ \E m \in { RegexExec(template, lastIndex) } :
         /\ m.found
         /\ lastIndex' = LastIndexAfter(lastIndex, m)
         /\ \E name \in { Trim(m.group) } :
              /\ placeholders' = SetAdd(placeholders, name)
              /\ occurrences' = occurrences \cup
                   { [index |-> m.index, end |-> m.end, name |-> name] }
    /\ UNCHANGED <<templateContent, pc, template, shownPlaceholders, memo, appVars>>

\* exec returned null: the loop ends and Array.from(placeholders) is returned
\* (lines 108, 112, 115).
ExecNull ==
    /\ pc = "loop"
    /\ \E m \in { RegexExec(template, lastIndex) } :
         /\ ~m.found
         /\ lastIndex' = LastIndexAfter(lastIndex, m)
    /\ shownPlaceholders' = placeholders
    /\ pc' = "done"
    /\ memo' = IF memo.set /\ memo.template # template
               THEN [memo EXCEPT !.between = TRUE] ELSE memo
    /\ UNCHANGED <<templateContent, template, placeholders, occurrences, appVars>>

\* Observer: keep the argument and the result of the call that just returned;
\* memo.between records that a call on another text returned since then.
Remember ==
    /\ pc = "done"
    /\ memo' = [set |-> TRUE, template |-> template, result |-> shownPlaceholders,
                between |-> FALSE]
    /\ UNCHANGED <<templateContent, pc, template, lastIndex, placeholders,
                   occurrences, shownPlaceholders, appVars>>

\* The user types or pastes one more piece at the end of the text (line 173).
TypePiece(U) ==
    \E p \in Pieces :
        /\ templateContent \o p \in U
        /\ SetTemplateContent(templateContent \o p)
        /\ UNCHANGED appVars

\* The user empties the textarea (line 173).
ClearText == SetTemplateContent(<<>>) /\ UNCHANGED appVars

\* reader.onload puts the content of an accepted file into templateContent
\* (lines 76-80).  The file itself (uploadedFile, which extractPlaceholders
\* does not read) is followed by ReaderOnload in SpecDialog.
LoadFile(U) == \E t \in U \cap FileContents : SetTemplateContent(t) /\ UNCHANGED appVars

\* Another state change (the dialog opening or closing) renders the component
\* again with the same templateContent (lines 53, 115).
Rerender == SetTemplateContent(templateContent) /\ UNCHANGED appVars

Next ==
    \/ TypePiece(Texts)
    \/ ClearText
    \/ LoadFile(Texts)
    \/ Rerender
    \/ ExecMatch
    \/ ExecNull

Spec == Init /\ [][Next]_vars

\* The loop runs to its end once entered: JavaScript runs a call to completion.
FairSpec == Spec /\ WF_vars(ExecMatch) /\ WF_vars(ExecNull)

NextCalls ==
    \/ TypePiece(CallTexts)
    \/ ClearText
    \/ LoadFile(CallTexts)
    \/ Rerender
    \/ ExecMatch
    \/ ExecNull
    \/ Remember

SpecCalls == Init /\ [][NextCalls]_vars

(***************************************************************************)
(* Vocabulary of the properties, written on the characters of the text.     *)
(***************************************************************************)
\* the two characters c, d stand at positions i, i + 1 of t
PairAt(t, i, c, d) == CharAt(t, i) = c /\ CharAt(t, i + 1) = d

\* the text between the delimiters of occurrence o
Raw(o) == SubSeq(template, o.index + 3, o.end - 2)

Names == { o.name : o \in occurrences }

\* the position of the first occurrence of name n
FirstIndex(n) ==
    LET I == { o.index : o \in { x \in occurrences : x.name = n } }
    IN  CHOOSE i \in I : \A j \in I : i <= j

Blank(s) == \A i \in 1..Len(s) : s[i] \in {" ", "\t", "\n", "\r", "\f"}

Padded(s) == s # <<>> /\ (Blank(<<s[1]>>) \/ Blank(<<s[Len(s)]>>))

\* n is raw without the whitespace around it
IsCoreOf(n, raw) ==
    /\ ~Padded(n)
    /\ \E l \in 0..(Len(raw) - Len(n)) :
          /\ SubSeq(raw, l + 1, l + Len(n)) = n
          /\ Blank(SubSeq(raw, 1, l))
          /\ Blank(SubSeq(raw, l + Len(n) + 1, Len(raw)))

(***************************************************************************)
(* C1: extractPlaceholders returns each distinct placeholder name exactly   *)
(* once, ordered by the position of its first occurrence in the text;       *)
(* "{{b}} {{a}} {{b}}" gives ["b", "a"].                                    *)
(***************************************************************************)
DistinctInFirstOccurrenceOrder ==
    pc = "done" =>
        /\ { shownPlaceholders[i] : i \in 1..Len(shownPlaceholders) } = Names
        /\ \A i, j \in 1..Len(shownPlaceholders) :
              i < j => /\ shownPlaceholders[i] # shownPlaceholders[j]
                       /\ FirstIndex(shownPlaceholders[i])
                            < FirstIndex(shownPlaceholders[j])
        /\ template = ExampleOrder => shownPlaceholders = << <<"b">>, <<"a">> >>

\* a call returned for a text with a repeated name after another name
RepeatedNameExtracted ==
    /\ pc = "done"
    /\ Cardinality(occurrences) = 3
    /\ Len(shownPlaceholders) = 2
    /\ \E o \in occurrences :
          o.name = shownPlaceholders[1] /\ o.index > FirstIndex(shownPlaceholders[2])

(***************************************************************************)
(* C2: occurrences that differ only in the whitespace between the           *)
(* delimiters and the name yield the same single name, and no returned name *)
(* starts or ends with whitespace; "{{ name }}" and "{{name}}" both give    *)
(* ["name"].                                                                *)
(***************************************************************************)
WhitespaceNormalized ==
    /\ \A o \in occurrences : IsCoreOf(o.name, Raw(o))
    /\ pc = "done" =>
          /\ \A i \in 1..Len(shownPlaceholders) : ~Padded(shownPlaceholders[i])
          /\ \A o \in occurrences :
                Cardinality({ i \in 1..Len(shownPlaceholders) :
                                IsCoreOf(shownPlaceholders[i], Raw(o)) }) = 1
          /\ template \in {ExampleSpacedName, ExampleName} =>
                shownPlaceholders = << <<"n", "a", "m", "e">> >>

\* a call returned one name for two occurrences written with different spacing
SpacingVariantsMerged ==
    /\ pc = "done"
    /\ Len(shownPlaceholders) = 1
    /\ shownPlaceholders[1] # <<>>
    /\ \E o1, o2 \in occurrences : Raw(o1) # Raw(o2) /\ Raw(o1) = shownPlaceholders[1]

(***************************************************************************)
(* C3.  An opening delimiter is unterminated when no "}}" stands between it *)
(* and the next "{{" (or the end of the text).                              *)
(***************************************************************************)
Unterminated(t, i) ==
    /\ PairAt(t, i, "{", "{")
    /\ ~ \E j \in (i + 2)..(Len(t) - 2) :
            /\ PairAt(t, j, "}", "}")
            /\ \A k \in (i + 2)..(j - 1) : ~PairAt(t, k, "{", "{")

\* C3 as stated: an unterminated opening delimiter never starts a match,
\* whatever text follows it.
UnterminatedNeverMatches ==
    \A o \in occurrences : ~Unterminated(template, o.index)

\* no "}}" stands anywhere after the opening delimiter at position i
NeverClosed(t, i) ==
    /\ PairAt(t, i, "{", "{")
    /\ ~ \E j \in (i + 2)..(Len(t) - 2) : PairAt(t, j, "}", "}")

\* C3 as amended: an opening delimiter that no "}}" follows anywhere in the
\* text is never a match and contributes nothing: every match of the call
\* ends before it.
NeverClosedNeverMatches ==
    \A i \in 0..(Len(template) - 2) :
        NeverClosed(template, i) => \A o \in occurrences : o.end <= i

\* a call returned a name for a text that ends in a never closed "{{"
MatchBeforeNeverClosed ==
    /\ pc = "done"
    /\ shownPlaceholders # <<>>
    /\ \E i \in 0..(Len(template) - 3) : NeverClosed(template, i)

(***************************************************************************)
(* C4: extractPlaceholders("{{ {{inner}} }}") returns exactly one name,     *)
(* "{{inner": the match closes at the first "}}" and the trailing " }}"     *)
(* gives no further match.                                                  *)
(***************************************************************************)
NestedClosesAtFirst ==
    (pc = "done" /\ template = ExampleNested) =>
        /\ shownPlaceholders = << <<"{", "{", "i", "n", "n", "e", "r">> >>
        /\ occurrences =
             { [index |-> 0, end |-> 12, name |-> <<"{", "{", "i", "n", "n", "e", "r">>] }

NestedExtracted ==
    pc = "done" /\ template = ExampleNested /\ Len(shownPlaceholders) = 1

(***************************************************************************)
(* C5: a placeholder whose content is one or more whitespace characters is  *)
(* a match and yields the empty name "", so the result [""] differs from    *)
(* the result [] of a text without a match.                                 *)
(***************************************************************************)
IsBlankPlaceholder(t) ==
    /\ Len(t) >= 5
    /\ PairAt(t, 0, "{", "{")
    /\ PairAt(t, Len(t) - 2, "}", "}")
    /\ Blank(SubSeq(t, 3, Len(t) - 2))

BlankContentGivesEmptyName ==
    /\ \A o \in occurrences : Blank(Raw(o)) => o.name = <<>>
    /\ (pc = "done" /\ IsBlankPlaceholder(template)) =>
          /\ shownPlaceholders = << <<>> >>
          /\ shownPlaceholders # <<>>

BlankNameExtracted ==
    /\ pc = "done"
    /\ template = ExampleBlankName
    /\ shownPlaceholders = << <<>> >>

(***************************************************************************)
(* C6: for a text that contains neither "{{" nor "}}" the result is the     *)
(* empty list.                                                              *)
(***************************************************************************)
NoDelimiters(t) ==
    \A i \in 0..(Len(t) - 2) : ~PairAt(t, i, "{", "{") /\ ~PairAt(t, i, "}", "}")

NoDelimitersNoPlaceholders ==
    (pc = "done" /\ NoDelimiters(template)) => shownPlaceholders = <<>>

\* a call returned for a text of single braces and letters
SingleBracesExtracted ==
    /\ pc = "done"
    /\ template = <<"{", "a", "}">>
    /\ shownPlaceholders = <<>>

(***************************************************************************)
(* C7: extractPlaceholders terminates on every text: each iteration of the  *)
(* loop moves the scan position strictly forward, never past the end of     *)
(* the text, and every call that entered the loop returns.                  *)
(***************************************************************************)
ScanTerminates ==
    /\ [][(pc = "loop" /\ pc' = "loop") =>
            (lastIndex < lastIndex' /\ lastIndex' <= Len(template))]_vars
    /\ (pc = "loop") ~> (pc = "done")

\* calls returned after several matches, and for the empty text
ReturnedAfterMatches ==
    pc = "done" /\ Cardinality(occurrences) >= 2 /\ lastIndex = 0

(***************************************************************************)
(* C8: two calls on the same text return identical lists, whatever other    *)
(* texts were extracted in between.                                         *)
(***************************************************************************)
SameTextSameResult ==
    (pc = "done" /\ memo.set /\ memo.template = template) =>
        shownPlaceholders = memo.result

\* the remembered text was extracted again after a call on another text
ExtractedAgainAfterOther ==
    /\ pc = "done"
    /\ memo.set
    /\ memo.between
    /\ memo.template = template
    /\ shownPlaceholders # <<>>

(***************************************************************************)
(* The TemplateUpload dialog (lines 52-101, 118, 146-152, 171-176,          *)
(* 199-206) and the parent's state it changes (lines 302-317).              *)
(***************************************************************************)
\* number of FileReaders reading at the same time
MaxReads == 1

UpperCase ==
    <<"A", "B", "C", "D", "E", "F", "G", "H", "I", "J", "K", "L", "M",
      "N", "O", "P", "Q", "R", "S", "T", "U", "V", "W", "X", "Y", "Z">>

LowerCase ==
    <<"a", "b", "c", "d", "e", "f", "g", "h", "i", "j", "k", "l", "m",
      "n", "o", "p", "q", "r", "s", "t", "u", "v", "w", "x", "y", "z">>

\* String.prototype.toLowerCase on the letters A-Z
ToLowerCase(s) ==
    [i \in 1..Len(s) |->
        IF \E k \in DOMAIN UpperCase : UpperCase[k] = s[i]
        THEN LowerCase[CHOOSE k \in DOMAIN UpperCase : UpperCase[k] = s[i]]
        ELSE s[i]]

\* String.prototype.endsWith
EndsWith(s, suffix) ==
    /\ Len(s) >= Len(suffix)
    /\ SubSeq(s, Len(s) - Len(suffix) + 1, Len(s)) = suffix

\* line 63
validTypes == {"text/markdown", "text/plain", "application/json"}

\* "||" in the place of "&&": a file is refused unless both its type and its
\* name are accepted
InvalidFileTypeEither(f) ==
    LET fileExtension == ToLowerCase(f.name)
    IN  \/ f.type \notin validTypes
        \/ /\ ~EndsWith(fileExtension, <<".", "m", "d">>)
           /\ ~EndsWith(fileExtension, <<".", "t", "x", "t">>)
           /\ ~EndsWith(fileExtension, <<".", "j", "s", "o", "n">>)

\* the condition of line 66
InvalidFileType(f) ==
    LET fileExtension == ToLowerCase(f.name)
    IN  /\ f.type \notin validTypes
        /\ ~EndsWith(fileExtension, <<".", "m", "d">>)
        /\ ~EndsWith(fileExtension, <<".", "t", "x", "t">>)
        /\ ~EndsWith(fileExtension, <<".", "j", "s", "o", "n">>)

\* "!templateContent" in the place of "!templateContent.trim()"
IsEmptyTemplateNoTrim(t) == t = <<>>

\* the condition of line 85
IsEmptyTemplate(t) == Trim(t) = <<>>

\* Files the user can choose: t.md (text/markdown), T.TXT and t.json with no
\* type, notes (text/plain), t.png (image/png), and md with no type.
MdFile ==
    [name |-> <<"t", ".", "m", "d">>, type |-> "text/markdown", content |-> ExampleName]
UpperTxtFile ==
    [name |-> <<"T", ".", "T", "X", "T">>, type |-> "", content |-> <<"a">>]
JsonFile ==
    [name |-> <<"t", ".", "j", "s", "o", "n">>, type |-> "", content |-> <<>>]
PlainFile ==
    [name |-> <<"n", "o", "t", "e", "s">>, type |-> "text/plain", content |-> <<" ">>]
PngFile ==
    [name |-> <<"t", ".", "p", "n", "g">>, type |-> "image/png", content |-> <<"b">>]
NoDotFile ==
    [name |-> <<"m", "d">>, type |-> "", content |-> <<"b">>]

Files == { MdFile, UpperTxtFile, JsonFile, PlainFile, PngFile, NoDotFile }

\* the texts of the textarea in the specification of the whole dialog
DialogTexts ==
    { <<>>, <<" ">>, <<"a">>, <<"{", "{", "a", "}", "}">>, DefaultTemplate }
        \cup { f.content : f \in Files }

\* the toasts of lines 67-71, 86-90, 97-100, 304-307, 313-316
InvalidFileToast == [title |-> "Invalid File Type", about |-> <<>>]
EmptyTemplateToast == [title |-> "Empty Template", about |-> <<>>]
TemplateAppliedToast(file) ==
    [title |-> "Template Applied",
     about |-> IF file # NoFile THEN <<"Using template from", file.name>>
               ELSE <<"Using custom template">>]
TemplateUploadedToast == [title |-> "Template Uploaded", about |-> <<>>]
TemplateResetToast == [title |-> "Template Reset", about |-> <<>>]

\* DialogTrigger, onOpenChange(true) (lines 118-124): the dialog opens and the
\* component renders again.  The trigger is part of the tab "ai-generator"
\* (lines 363-474), which renders only while that tab is selected.
OpenDialog ==
    /\ ~isDialogOpen
    /\ ~editorMounted
    /\ isDialogOpen' = TRUE
    /\ SetTemplateContent(templateContent)
    /\ UNCHANGED <<sideVars, uploadedFile, reading, toasts, generatorVars, viewerVars, escaped,
                   editorVars, exportRun>>

\* Cancel (line 200) or onOpenChange(false) (line 118).
CloseDialog ==
    /\ isDialogOpen
    /\ isDialogOpen' = FALSE
    /\ SetTemplateContent(templateContent)
    /\ UNCHANGED <<sideVars, uploadedFile, reading, toasts, generatorVars, viewerVars, escaped,
                   editorVars, exportRun>>

\* The textarea of the open dialog (lines 171-176).
EditTemplate(U) == isDialogOpen /\ (TypePiece(U) \/ ClearText)

\* handleFileUpload (lines 59-82) on the file chosen in the picker (NoFile:
\* none): a refused file shows the toast and returns; an accepted file is
\* given to a new FileReader.
HandleFileUpload(f) ==
    /\ pc = "done"
    /\ isDialogOpen
    /\ IF f = NoFile
       THEN UNCHANGED <<reading, toasts>>
       ELSE IF InvalidFileType(f)
       THEN toasts' = <<InvalidFileToast>> /\ UNCHANGED reading
       ELSE /\ Len(reading) < MaxReads
            /\ reading' = Append(reading, f)
            /\ UNCHANGED toasts
    /\ UNCHANGED <<sideVars, extractVars, isDialogOpen, uploadedFile, generatorVars, viewerVars,
                   escaped, editorVars, exportRun>>

\* The list kept in a state that only the textarea's onChange fills: reader.onload
\* changes the text and the list stays as it was.
ReaderOnloadStaleList(i) ==
    /\ pc = "done"
    /\ i \in DOMAIN reading
    /\ templateContent' = reading[i].content
    /\ uploadedFile' = reading[i]
    /\ reading' = SubSeq(reading, 1, i - 1) \o SubSeq(reading, i + 1, Len(reading))
    /\ UNCHANGED <<sideVars, pc, template, lastIndex, placeholders, occurrences,
                   shownPlaceholders, memo, isDialogOpen, toasts, generatorVars,
                   viewerVars, escaped, editorVars, exportRun>>

\* reader.onload of one of the FileReaders (lines 76-80).
ReaderOnload(i) ==
    /\ i \in DOMAIN reading
    /\ SetTemplateContent(reading[i].content)
    /\ uploadedFile' = reading[i]
    /\ reading' = SubSeq(reading, 1, i - 1) \o SubSeq(reading, i + 1, Len(reading))
    /\ UNCHANGED <<sideVars, isDialogOpen, toasts, generatorVars, viewerVars, escaped, editorVars,
                   exportRun>>

\* handleApplyTemplate (lines 84-101); onTemplateUpload is the parent's
\* handleTemplateUpload (lines 302-308, 378).
HandleApplyTemplate ==
    /\ pc = "done"
    /\ isDialogOpen
    /\ IF IsEmptyTemplate(templateContent)
       THEN /\ toasts' = <<EmptyTemplateToast>>
            /\ UNCHANGED <<extractVars, isDialogOpen, appliedTemplate>>
       ELSE /\ appliedTemplate' = Some(templateContent)
            /\ isDialogOpen' = FALSE
            /\ toasts' = <<TemplateUploadedToast, TemplateAppliedToast(uploadedFile)>>
            /\ SetTemplateContent(templateContent)
    /\ UNCHANGED <<sideVars, uploadedFile, reading, prompt, isGenerating, result, generations,
                   pendingAtReset,
                   viewerVars, escaped, editorVars, exportRun>>

\* handleReset (lines 310-317), the button of lines 379-384; the parent
\* renders again and with it the TemplateUpload of line 378.  Without a
\* result line 456 renders no OutputViewer: React sets the ref of the
\* unmounted div to null, and the calls of renderDiagram that still wait hold
\* that ref.
HandleReset ==
    /\ pc = "done"
    /\ ~editorMounted
    /\ ~appliedTemplate.isNull /\ appliedTemplate.value # <<>>
    /\ appliedTemplate' = Null
    /\ result' = NoResult
    /\ toasts' = <<TemplateResetToast>>
    /\ container' = Unmounted
    /\ renders' = [i \in DOMAIN renders |-> [renders[i] EXCEPT !.live = FALSE]]
    /\ SetTemplateContent(templateContent)
    /\ copiedStates' = NothingCopied
    /\ copying' = [i \in DOMAIN copying |-> [copying[i] EXCEPT !.live = FALSE]]
    /\ copyTimers' = [i \in DOMAIN copyTimers |-> [copyTimers[i] EXCEPT !.live = FALSE]]
    /\ pendingAtReset' = Len(generations)
    /\ UNCHANGED <<libraryVars, exampleVars, dialogVars, prompt, isGenerating, generations, escaped,
                   editorVars, exportRun>>

NextDialog ==
    \/ OpenDialog
    \/ CloseDialog
    \/ EditTemplate(DialogTexts)
    \/ \E f \in Files \cup {NoFile} : HandleFileUpload(f)
    \/ \E i \in 1..MaxReads : ReaderOnload(i)
    \/ HandleApplyTemplate
    \/ HandleReset
    \/ ExecMatch
    \/ ExecNull

SpecDialog == Init /\ [][NextDialog]_vars

(***************************************************************************)
(* C13: handleFileUpload rejects an unsupported file: when the file's MIME  *)
(* type is none of text/markdown, text/plain, application/json and its      *)
(* lower-cased name ends in none of .md, .txt, .json, the validation toast  *)
(* is shown, no read is started, and templateContent and uploadedFile are   *)
(* unchanged; a file meeting one of the conditions is accepted: its read is *)
(* started.                                                                 *)
(***************************************************************************)
SupportedSuffixes ==
    { <<".", "m", "d">>, <<".", "t", "x", "t">>, <<".", "j", "s", "o", "n">> }

Unsupported(f) ==
    /\ f.type # "text/markdown" /\ f.type # "text/plain" /\ f.type # "application/json"
    /\ \A k \in 0..Len(f.name) :
          ToLowerCase(SubSeq(f.name, k + 1, Len(f.name))) \notin SupportedSuffixes

UnsupportedFileRejected ==
    [][\A f \in Files :
          HandleFileUpload(f) =>
             IF Unsupported(f)
             THEN /\ toasts' = <<InvalidFileToast>>
                  /\ reading' = reading
                  /\ templateContent' = templateContent
                  /\ uploadedFile' = uploadedFile
             ELSE /\ reading' = Append(reading, f)
                  /\ toasts' = toasts]_vars

\* a file was refused after a file accepted by its upper-case extension alone
\* had been read
RefusedAfterAccepted ==
    /\ pc = "done"
    /\ toasts = <<InvalidFileToast>>
    /\ reading = <<>>
    /\ uploadedFile = UpperTxtFile
    /\ templateContent = UpperTxtFile.content

(***************************************************************************)
(* C14: handleApplyTemplate with empty or whitespace-only templateContent   *)
(* shows the validation toast, does not call onTemplateUpload, leaves the   *)
(* dialog open and the parent's template unchanged; with any other content  *)
(* it calls onTemplateUpload exactly once with the current templateContent  *)
(* (the parent stores it and shows its toast once) and closes the dialog.   *)
(***************************************************************************)
\* the number of calls of the parent's handleTemplateUpload the toasts show
UploadCalls(ts) == Cardinality({ i \in DOMAIN ts : ts[i] = TemplateUploadedToast })

ApplyChecksContent ==
    [][HandleApplyTemplate =>
          IF Blank(templateContent)
          THEN /\ toasts' = <<EmptyTemplateToast>>
               /\ UploadCalls(toasts') = 0
               /\ isDialogOpen'
               /\ appliedTemplate' = appliedTemplate
          ELSE /\ UploadCalls(toasts') = 1
               /\ appliedTemplate' = Some(templateContent)
               /\ ~isDialogOpen']_vars

\* a whitespace-only text was refused after another text had been applied
WhitespaceTemplateRefused ==
    /\ pc = "done"
    /\ toasts = <<EmptyTemplateToast>>
    /\ isDialogOpen
    /\ templateContent = <<" ">>
    /\ appliedTemplate = Some(<<"a">>)

(***************************************************************************)
(* C20: whenever the dialog has rendered, after any sequence of edits, file *)
(* uploads, cancels and applies, the displayed list of detected             *)
(* placeholders is extractPlaceholders of the current templateContent.      *)
(***************************************************************************)
RECURSIVE ExtractLoop(_, _, _)
\* the while loop of lines 108-110 from scan position li with the Set found
ExtractLoop(t, li, found) ==
    LET m == RegexExec(t, li)
    IN  IF m.found THEN ExtractLoop(t, m.end, SetAdd(found, Trim(m.group)))
        ELSE found

\* extractPlaceholders as a function of its argument (lines 103-113)
ExtractPlaceholders(t) == ExtractLoop(t, 0, <<>>)

DisplayedListIsCurrent ==
    pc = "done" => shownPlaceholders = ExtractPlaceholders(templateContent)

\* the list shown after an upload, an edit and an apply
ShownAfterUploadEditApply ==
    /\ pc = "done"
    /\ ~isDialogOpen
    /\ uploadedFile = MdFile
    /\ appliedTemplate = Some(templateContent)
    /\ shownPlaceholders = << <<"a">> >>

(***************************************************************************)
(* The ArchitectureGenerator (TemplateUpload.tsx lines 231-317, 417-426,    *)
(* 456-457) and the diagram of the OutputViewer it renders                  *)
(* (OutputViewer.tsx lines 21-62).                                          *)
(***************************************************************************)
\* number of calls of handleGenerate waiting for their timer
MaxGenerations == 2
\* number of calls of renderDiagram waiting for mermaid.render
MaxRenders == 2

\* the prompts of the textarea: "", " " and "a b c d"
Prompts == { <<>>, <<" ">>, <<"a", " ", "b", " ", "c", " ", "d">> }

\* the texts of the dialog's textarea in the specifications of the generator
GeneratorTexts == { <<>>, <<"a">>, DefaultTemplate }

RECURSIVE SplitSpace(_)
\* String.prototype.split(' ')
SplitSpace(s) ==
    IF \A i \in 1..Len(s) : s[i] # " " THEN <<s>>
    ELSE LET i == CHOOSE j \in 1..Len(s) :
                      s[j] = " " /\ \A k \in 1..(j - 1) : s[k] # " "
         IN  <<SubSeq(s, 1, i - 1)>> \o SplitSpace(SubSeq(s, i + 1, Len(s)))

\* Array.prototype.slice(0, end)
SliceFromStart(a, end) == SubSeq(a, 1, IF Len(a) < end THEN Len(a) ELSE end)

RECURSIVE JoinSpace(_)
\* Array.prototype.join(' ')
JoinSpace(a) ==
    IF a = <<>> THEN <<>>
    ELSE IF Len(a) = 1 THEN a[1]
    ELSE a[1] \o <<" ">> \o JoinSpace(Tail(a))

\* the literal text of the mock document (line 255) before, between and
\* after its two insertions
DocumentHead ==
    <<"#", " ", "S", "y", "s", "t", "e", "m", " ", "A", "r", "c", "h", "i", "t", "e", "c", "t", "u", "r", "e", ":", " ">>

DocumentOverview ==
    <<"\n">> \o
    <<"\n">> \o
    <<"#", "#", " ", "O", "v", "e", "r", "v", "i", "e", "w", "\n">> \o
    <<"T", "h", "i", "s", " ", "d", "o", "c", "u", "m", "e", "n", "t", " ", "d", "e", "s", "c", "r", "i", "b", "e", "s", " ", "t", "h", "e", " ", "a", "r", "c", "h", "i", "t", "e", "c", "t", "u", "r", "e", " ", "f", "o", "r", " ">>

DocumentTail ==
    <<".", "\n">> \o
    <<"\n">> \o
    <<"#", "#", " ", "C", "o", "m", "p", "o", "n", "e", "n", "t", "s", "\n">> \o
    <<"-", " ", "F", "r", "o", "n", "t", "e", "n", "d", " ", "A", "p", "p", "l", "i", "c", "a", "t", "i", "o", "n", "\n">> \o
    <<"-", " ", "B", "a", "c", "k", "e", "n", "d", " ", "A", "P", "I", "\n">> \o
    <<"-", " ", "D", "a", "t", "a", "b", "a", "s", "e", " ", "L", "a", "y", "e", "r", "\n">> \o
    <<"-", " ", "A", "u", "t", "h", "e", "n", "t", "i", "c", "a", "t", "i", "o", "n", " ", "S", "e", "r", "v", "i", "c", "e", "\n">> \o
    <<"\n">> \o
    <<"#", "#", " ", "T", "e", "c", "h", "n", "o", "l", "o", "g", "y", " ", "S", "t", "a", "c", "k", "\n">> \o
    <<"-", " ", "F", "r", "o", "n", "t", "e", "n", "d", ":", " ", "R", "e", "a", "c", "t", ",", " ", "T", "y", "p", "e", "S", "c", "r", "i", "p", "t", "\n">> \o
    <<"-", " ", "B", "a", "c", "k", "e", "n", "d", ":", " ", "N", "o", "d", "e", ".", "j", "s", ",", " ", "E", "x", "p", "r", "e", "s", "s", "\n">> \o
    <<"-", " ", "D", "a", "t", "a", "b", "a", "s", "e", ":", " ", "P", "o", "s", "t", "g", "r", "e", "S", "Q", "L", "\n">> \o
    <<"-", " ", "C", "a", "c", "h", "e", ":", " ", "R", "e", "d", "i", "s", "\n">> \o
    <<"\n">> \o
    <<"#", "#", " ", "D", "e", "p", "l", "o", "y", "m", "e", "n", "t", "\n">> \o
    <<"T", "h", "e", " ", "s", "y", "s", "t", "e", "m", " ", "w", "i", "l", "l", " ", "b", "e", " ", "d", "e", "p", "l", "o", "y", "e", "d", " ", "u", "s", "i", "n", "g", " ", "D", "o", "c", "k", "e", "r", " ", "c", "o", "n", "t", "a", "i", "n", "e", "r", "s", " ", "o", "r", "c", "h", "e", "s", "t", "r", "a", "t", "e", "d", " ", "b", "y", " ", "K", "u", "b", "e", "r", "n", "e", "t", "e", "s", ".">>

\* the document of mockResult (line 255) for the prompt p of the call
MockDocument(p) ==
    DocumentHead \o JoinSpace(SliceFromStart(SplitSpace(p), 3)) \o DocumentOverview
        \o p \o DocumentTail

\* the diagram of mockResult (lines 256-279): the same text for every call
MockDiagram == "graph TB A[User Interface] --> B[API Gateway] ..."

MockResult(p) == [isNull |-> FALSE, document |-> MockDocument(p), diagram |-> MockDiagram]

\* the toasts of lines 240-244 and 283-286
MissingPromptToast == [title |-> "Missing Prompt", about |-> <<>>]
GeneratedToast == [title |-> "Architecture Generated!", about |-> <<>>]

\* the innerHTML of the div of mermaidRef: nothing, the svg of a diagram, the
\* placeholder of lines 51-56; Detached: OutputViewer is rendered and
\* mermaidRef.current is null
Empty == <<"">>
Svg(d) == <<"svg", d>>
ErrorPlaceholder == <<"Error rendering diagram">>
Detached == <<"detached">>

\* "!prompt" in the place of "!prompt.trim()"
IsBlankPromptNoTrim(p) == p = <<>>

\* the condition of lines 239 and 425
IsBlankPrompt(p) == Trim(p) = <<>>

\* Textarea onChange (line 420) or handleExampleSelect (lines 298-300); the
\* parent renders again and with it the TemplateUpload of line 378.
SetPrompt(p) ==
    /\ p # prompt
    /\ prompt' = p
    /\ SetTemplateContent(templateContent)
    /\ UNCHANGED <<sideVars, dialogVars, toasts, appliedTemplate, isGenerating, result, generations,
                   pendingAtReset,
                   viewerVars, escaped, editorVars, exportRun>>

\* handleGenerate up to its await (lines 238-252): the call keeps the prompt
\* of the render it was made in, the only state it reads after the await.
HandleGenerate ==
    /\ pc = "done"
    /\ IF IsBlankPrompt(prompt)
       THEN /\ toasts' = <<MissingPromptToast>>
            /\ UNCHANGED <<extractVars, isGenerating, generations>>
       ELSE /\ Len(generations) < MaxGenerations
            /\ isGenerating' = TRUE
            /\ generations' = Append(generations, [prompt |-> prompt])
            /\ IF isGenerating THEN UNCHANGED extractVars
               ELSE SetTemplateContent(templateContent)
            /\ UNCHANGED toasts
    /\ UNCHANGED <<sideVars, dialogVars, prompt, appliedTemplate, result, pendingAtReset,
                   viewerVars, escaped,
                   editorVars, exportRun>>

\* a button that is only disabled for a blank prompt
GenerateButtonEnabledWhileGenerating == ~IsBlankPrompt(prompt)

\* the Generate button is not disabled (line 425)
GenerateButtonEnabled == ~isGenerating /\ ~IsBlankPrompt(prompt)

\* a click on the Generate button (lines 423-426)
ClickGenerate == GenerateButtonEnabled /\ HandleGenerate

\* The timer of the oldest waiting call fires and the call runs to its end
\* (lines 252-295).  With the first result line 457 renders an OutputViewer,
\* whose effect (OutputViewer.tsx lines 25-62) finds mermaidRef.current set or
\* null; when it is set the effect empties the div and calls mermaid.render.
\* The diagram is the same text for every result, so the effect does not run
\* again while the OutputViewer stays rendered.
GenerationResolves ==
    /\ pc = "done"
    /\ generations # <<>>
    /\ result' = MockResult(Head(generations).prompt)
    /\ toasts' = <<GeneratedToast>>
    /\ isGenerating' = FALSE
    /\ generations' = Tail(generations)
    /\ SetTemplateContent(templateContent)
    /\ IF result.isNull
       THEN \E attached \in BOOLEAN :
               IF attached /\ result'.diagram # ""
               THEN /\ Len(renders) < MaxRenders
                    /\ container' = Empty
                    /\ renders' = Append(renders, [diagram |-> result'.diagram, live |-> TRUE])
               ELSE /\ container' = IF attached THEN Empty ELSE Detached
                    /\ UNCHANGED renders
       ELSE UNCHANGED viewerVars
    /\ pendingAtReset' = IF pendingAtReset > 0 THEN pendingAtReset - 1 ELSE 0
    /\ UNCHANGED <<sideVars, dialogVars, prompt, appliedTemplate, escaped, editorVars, exportRun>>

\* mermaid.render of a waiting call of renderDiagram settles (OutputViewer.tsx
\* lines 47-57): ok, the svg is written; not ok, the catch block writes the
\* placeholder.  When the div of the call has been unmounted mermaidRef.current
\* is null: line 48 (or mermaid.render) throws, the catch block throws again at
\* line 51 and the promise of renderDiagram is rejected with nobody to catch it.
RenderEnds(i, ok) ==
    /\ pc = "done"
    /\ i \in DOMAIN renders
    /\ IF renders[i].live
       THEN /\ container' = IF ok THEN Svg(renders[i].diagram) ELSE ErrorPlaceholder
            /\ UNCHANGED escaped
       ELSE /\ escaped' = TRUE
            /\ UNCHANGED container
    /\ renders' = SubSeq(renders, 1, i - 1) \o SubSeq(renders, i + 1, Len(renders))
    /\ UNCHANGED <<sideVars, extractVars, dialogVars, toasts, generatorVars, editorVars, exportRun>>

NextGen ==
    \/ OpenDialog
    \/ CloseDialog
    \/ EditTemplate(GeneratorTexts)
    \/ HandleApplyTemplate
    \/ HandleReset
    \/ \E p \in Prompts : SetPrompt(p)
    \/ ClickGenerate
    \/ GenerationResolves
    \/ \E i \in 1..MaxRenders, ok \in BOOLEAN : RenderEnds(i, ok)
    \/ ExecMatch
    \/ ExecNull

SpecGen == Init /\ [][NextGen]_vars

\* The generator with the default template: the prompt, the Generate button,
\* the pending generation and the diagram's rendering.
NextGenerate ==
    \/ \E p \in Prompts : SetPrompt(p)
    \/ ClickGenerate
    \/ GenerationResolves
    \/ \E i \in 1..MaxRenders, ok \in BOOLEAN : RenderEnds(i, ok)
    \/ ExecMatch
    \/ ExecNull

\* A render runs to its end, and the browser runs the callback of a timer
\* that has expired.
FairSpecGen ==
    /\ Init /\ [][NextGenerate]_vars
    /\ WF_vars(ExecMatch) /\ WF_vars(ExecNull) /\ SF_vars(GenerationResolves)

\* handleGenerate called in any state, not only by a click on the enabled
\* button.
NextGenCall ==
    \/ \E p \in Prompts : SetPrompt(p)
    \/ HandleGenerate
    \/ GenerationResolves
    \/ \E i \in 1..MaxRenders, ok \in BOOLEAN : RenderEnds(i, ok)
    \/ ExecMatch
    \/ ExecNull

SpecGenCall == Init /\ [][NextGenCall]_vars

(***************************************************************************)
(* C12: when a custom template has been applied and a generation then       *)
(* succeeds, the generated document is produced from the applied template:  *)
(* it is the template's text with each detected placeholder replaced by     *)
(* generated content.                                                       *)
(***************************************************************************)
RECURSIVE LiteralsFrom(_, _)
\* the pieces of text t from position li on that lie outside the placeholders
LiteralsFrom(t, li) ==
    LET m == RegexExec(t, li)
    IN  IF m.found THEN <<SubSeq(t, li + 1, m.index)>> \o LiteralsFrom(t, m.end)
        ELSE <<SubSeq(t, li + 1, Len(t))>>

StartsWith(s, prefix) == Len(s) >= Len(prefix) /\ SubSeq(s, 1, Len(prefix)) = prefix

RECURSIVE FitsAfter(_, _)
\* d is some content followed by the pieces segs with some content between them
FitsAfter(d, segs) ==
    IF Len(segs) = 1 THEN EndsWith(d, segs[1])
    ELSE \E k \in 0..(Len(d) - Len(segs[1])) :
            /\ SubSeq(d, k + 1, k + Len(segs[1])) = segs[1]
            /\ FitsAfter(SubSeq(d, k + Len(segs[1]) + 1, Len(d)), Tail(segs))

\* doc is text t with each placeholder replaced by some content
RendersTemplate(doc, t) ==
    LET segs == LiteralsFrom(t, 0)
    IN  IF Len(segs) = 1 THEN doc = segs[1]
        ELSE /\ StartsWith(doc, segs[1])
             /\ FitsAfter(SubSeq(doc, Len(segs[1]) + 1, Len(doc)), Tail(segs))

GeneratedFromAppliedTemplate ==
    [][(GenerationResolves /\ ~appliedTemplate.isNull) =>
          RendersTemplate(result'.document, appliedTemplate.value)]_vars

(***************************************************************************)
(* C15: handleGenerate with an empty or whitespace-only prompt shows the    *)
(* validation toast and returns: it does not set isGenerating, starts no    *)
(* backend call and leaves result as it was.                                *)
(***************************************************************************)
BlankPromptShortCircuits ==
    [][(HandleGenerate /\ Blank(prompt)) =>
          /\ toasts' = <<MissingPromptToast>>
          /\ isGenerating' = isGenerating
          /\ generations' = generations
          /\ result' = result]_vars

\* a whitespace-only prompt was refused after a generation had given a result
BlankPromptRefused ==
    /\ pc = "done"
    /\ toasts = <<MissingPromptToast>>
    /\ prompt = <<" ">>
    /\ ~isGenerating
    /\ ~result.isNull

GeneratingWhilePending ==
    /\ [](isGenerating <=> generations # <<>>)
    /\ [](Len(generations) <= 1)
    /\ [][(~isGenerating /\ isGenerating') =>
             (HandleGenerate /\ ~Blank(prompt) /\ generations' = <<[prompt |-> prompt]>>)]_vars
    /\ [][(isGenerating /\ ~isGenerating') => GenerationResolves]_vars
    /\ isGenerating ~> ~isGenerating

\* a second generation is pending, started after the first one gave its result
SecondGenerationPending ==
    /\ pc = "done"
    /\ isGenerating
    /\ Len(generations) = 1
    /\ ~result.isNull

(***************************************************************************)
(* PlantUMLEditor: the debounced preview (PlantUMLEditor.tsx lines 26-54)   *)
(* and the exports (lines 129-224).  The editor is the content of the tab   *)
(* "plantuml-editor" (TemplateUpload.tsx lines 357-479): it is mounted      *)
(* while its tab is selected, and the generator's tab is not.               *)
(***************************************************************************)
\* setTimeout(..., 500), line 51
DebounceDelay == 500

\* a code that encode() refuses: generateDiagramUrl returns '' (lines 38-41)
Unencodable == "<code that encode throws on>"

\* the editor's texts: the default, the empty text, a diagram of the user,
\* and a text that cannot be encoded
Codes == { DEFAULT_PLANTUML, "", "@startuml A -> B @enduml", Unencodable }

\* encode(code) of plantuml-encoder: a compressed, re-encoded form of the
\* code, different for different codes and different from the code
Encode(code) == <<"deflate+encode64", code>>

\* generateDiagramUrl (lines 34-42)
GenerateDiagramUrl(code) ==
    IF code = Unencodable THEN <<>>
    ELSE <<"https://www.plantuml.com/plantuml/svg/", Encode(code)>>

\* the timer of line 47: its callback closes over the code of its render
Timer(code) == [code |-> code, delay |-> DebounceDelay]

DownloadedToast == [title |-> "Downloaded", about |-> <<>>]
PdfDownloadedToast == [title |-> "PDF Downloaded", about |-> <<>>]
DocxDownloadedToast == [title |-> "DOCX Downloaded", about |-> <<>>]
PdfExportFailedToast == [title |-> "Export Failed", about |-> <<"P", "D", "F">>]
DocxExportFailedToast == [title |-> "Export Failed", about |-> <<"D", "O", "C", "X">>]

\* JSON.stringify and JSON.parse of a list of diagrams: the text is not the
\* list, and parsing it gives the list back
JSONStringify(list) == <<"json", list>>
JSONParse(text) == text[2]

\* The effect of lines 57-62: the stored list, when there is a stored text.
LoadSavedDiagrams(item) ==
    IF ~item.isNull /\ item.value # <<>> THEN JSONParse(item.value) ELSE <<>>

\* The user selects the tab "plantuml-editor": the generator's tab content
\* (TemplateUpload, OutputViewer) is unmounted, a file still being read and a
\* render still running lose their component, as do the copies and the
\* added examples, and PlantUMLEditor is constructed; its effects set
\* isRendering, start the timer and load the saved diagrams (lines 26-30,
\* 45-62).
SelectEditorTab ==
    /\ pc = "done"
    /\ ~editorMounted
    /\ ~isDialogOpen
    /\ uploadedFile' = NoFile
    /\ reading' = <<>>
    /\ container' = Unmounted
    /\ renders' = [i \in DOMAIN renders |-> [renders[i] EXCEPT !.live = FALSE]]
    /\ editorMounted' = TRUE
    /\ plantUMLCode' = DEFAULT_PLANTUML
    /\ diagramUrl' = <<>>
    /\ isRendering' = TRUE
    /\ timers' = { Timer(DEFAULT_PLANTUML) }
    /\ savedDiagrams' = LoadSavedDiagrams(storage)
    /\ currentDiagramName' = <<>>
    /\ ~isExampleDialogOpen
    /\ examples' = DefaultExamples
    /\ newExample' = EmptyExample
    /\ copiedStates' = NothingCopied
    /\ copying' = [i \in DOMAIN copying |-> [copying[i] EXCEPT !.live = FALSE]]
    /\ copyTimers' = [i \in DOMAIN copyTimers |-> [copyTimers[i] EXCEPT !.live = FALSE]]
    /\ UNCHANGED <<storage, clock, isExampleDialogOpen, extractVars, isDialogOpen, toasts,
                   generatorVars, escaped, exportRun>>

\* The user selects the tab "ai-generator": the editor is unmounted, the
\* cleanup of its effect clears the timer (line 53) and its state is gone;
\* TemplateUpload is constructed with the default template and renders, and
\* OutputViewer is constructed when there is a result (its effect, lines
\* 25-62).
SelectGeneratorTab ==
    /\ pc = "done"
    /\ editorMounted
    /\ editorMounted' = FALSE
    /\ plantUMLCode' = DEFAULT_PLANTUML
    /\ diagramUrl' = <<>>
    /\ isRendering' = FALSE
    /\ timers' = {}
    /\ SetTemplateContent(DefaultTemplate)
    /\ IF ~result.isNull
       THEN \E attached \in BOOLEAN :
               IF attached /\ result.diagram # ""
               THEN /\ Len(renders) < MaxRenders
                    /\ container' = Empty
                    /\ renders' = Append(renders, [diagram |-> result.diagram, live |-> TRUE])
               ELSE /\ container' = IF attached THEN Empty ELSE Detached
                    /\ UNCHANGED renders
       ELSE UNCHANGED viewerVars
    /\ savedDiagrams' = <<>>
    /\ currentDiagramName' = <<>>
    /\ UNCHANGED <<storage, clock, copyVars, exampleVars, dialogVars, toasts, generatorVars,
                   escaped, exportRun>>

\* The effect without its cleanup: the timer of the previous code stays.
SetPlantUMLCodeNoCleanup(c) ==
    /\ pc = "done"
    /\ editorMounted
    /\ c # plantUMLCode
    /\ plantUMLCode' = c
    /\ isRendering' = TRUE
    /\ timers' = timers \cup { Timer(c) }
    /\ UNCHANGED <<sideVars, extractVars, dialogVars, toasts, generatorVars, viewerVars,
                   escaped, editorMounted, diagramUrl, exportRun>>

\* setPlantUMLCode with another code (Textarea onChange line 333, Load line
\* 93, New Diagram line 109): the component renders, the cleanup of the
\* previous effect clears its timer (line 53) and the effect runs again
\* (lines 46-51).
SetPlantUMLCode(c) ==
    /\ pc = "done"
    /\ editorMounted
    /\ c # plantUMLCode
    /\ plantUMLCode' = c
    /\ isRendering' = TRUE
    /\ timers' = { Timer(c) }
    /\ UNCHANGED <<sideVars, extractVars, dialogVars, toasts, generatorVars, viewerVars,
                   escaped, editorMounted, diagramUrl, exportRun>>

\* The callback of a pending timer runs (lines 48-50).
TimerFires ==
    /\ pc = "done"
    /\ \E t \in timers :
          /\ diagramUrl' = GenerateDiagramUrl(t.code)
          /\ timers' = timers \ {t}
    /\ isRendering' = FALSE
    /\ UNCHANGED <<sideVars, extractVars, dialogVars, toasts, generatorVars, viewerVars,
                   escaped, editorMounted, plantUMLCode, exportRun>>

\* One export of the editor is followed at a time, from the click to its end.
EditorExport(kind, stage, notice) ==
    [component |-> "PlantUMLEditor", kind |-> kind, stage |-> stage, notice |-> notice]

NoExportRunning == exportRun.stage # "running"

\* handleDownloadText (lines 129-144) has no try: when the Blob, the object
\* URL or the click throws, the exception leaves the click handler.
HandleDownloadTextEditor(ok) ==
    /\ pc = "done"
    /\ editorMounted
    /\ NoExportRunning
    /\ IF ok
       THEN /\ toasts' = <<DownloadedToast>>
            /\ exportRun' = EditorExport("text", "ended", "success")
            /\ UNCHANGED escaped
       ELSE /\ escaped' = TRUE
            /\ exportRun' = EditorExport("text", "ended", "none")
            /\ UNCHANGED toasts
    /\ UNCHANGED <<sideVars, extractVars, dialogVars, generatorVars, viewerVars, editorVars>>

\* handleDownloadPDF (lines 146-173) up to its return: nothing when there is
\* no diagramUrl (line 147); otherwise the image is made and its loading
\* started (lines 150-165), and a throw in these lines gives the failure
\* toast (lines 166-172).
HandleDownloadPDFEditor(ok) ==
    /\ pc = "done"
    /\ editorMounted
    /\ NoExportRunning
    /\ IF diagramUrl = <<>>
       THEN /\ exportRun' = EditorExport("pdf", "ended", "none")
            /\ UNCHANGED toasts
       ELSE IF ok
       THEN /\ exportRun' = EditorExport("pdf", "running", "none")
            /\ UNCHANGED toasts
       ELSE /\ exportRun' = EditorExport("pdf", "ended", "failure")
            /\ toasts' = <<PdfExportFailedToast>>
    /\ UNCHANGED <<sideVars, extractVars, dialogVars, generatorVars, viewerVars, escaped, editorVars>>

\* The image of the PDF export settles.  "load": img.onload runs (lines
\* 152-164) and ends with the success toast; "throw": img.onload runs and
\* jsPDF throws, outside the try of the handler that has returned; "error":
\* the image does not load, and there is no img.onerror.
ImageSettles(outcome) ==
    /\ pc = "done"
    /\ exportRun = EditorExport("pdf", "running", "none")
    /\ outcome \in {"load", "throw", "error"}
    /\ IF outcome = "load"
       THEN /\ toasts' = <<PdfDownloadedToast>>
            /\ exportRun' = EditorExport("pdf", "ended", "success")
            /\ UNCHANGED escaped
       ELSE /\ exportRun' = EditorExport("pdf", "ended", "none")
            /\ escaped' = (escaped \/ outcome = "throw")
            /\ UNCHANGED toasts
    /\ UNCHANGED <<sideVars, extractVars, dialogVars, generatorVars, viewerVars, editorVars>>

\* handleDownloadDOCX (lines 175-224) up to its first await: nothing when
\* there is no diagramUrl (line 176); otherwise fetch is called.
HandleDownloadDOCXEditor ==
    /\ pc = "done"
    /\ editorMounted
    /\ NoExportRunning
    /\ exportRun' = IF diagramUrl = <<>> THEN EditorExport("docx", "ended", "none")
                    ELSE EditorExport("docx", "running", "none")
    /\ UNCHANGED <<sideVars, extractVars, dialogVars, toasts, generatorVars, viewerVars,
                   escaped, editorVars>>

\* The rest of handleDownloadDOCX: fetch, arrayBuffer, Packer.toBuffer and
\* the download succeed (lines 179-216), or one of them fails and the catch
\* block shows the failure toast (lines 217-223).
DocxSettles(ok) ==
    /\ pc = "done"
    /\ exportRun = EditorExport("docx", "running", "none")
    /\ toasts' = <<IF ok THEN DocxDownloadedToast ELSE DocxExportFailedToast>>
    /\ exportRun' = EditorExport("docx", "ended", IF ok THEN "success" ELSE "failure")
    /\ UNCHANGED <<sideVars, extractVars, dialogVars, generatorVars, viewerVars, escaped, editorVars>>

NextUml ==
    \/ SelectEditorTab
    \/ SelectGeneratorTab
    \/ \E c \in Codes : SetPlantUMLCode(c)
    \/ TimerFires
    \/ \E ok \in BOOLEAN : HandleDownloadTextEditor(ok)
    \/ \E ok \in BOOLEAN : HandleDownloadPDFEditor(ok)
    \/ \E outcome \in {"load", "throw", "error"} : ImageSettles(outcome)
    \/ HandleDownloadDOCXEditor
    \/ \E ok \in BOOLEAN : DocxSettles(ok)
    \/ ExecMatch
    \/ ExecNull

SpecUml == Init /\ [][NextUml]_vars

\* A render runs to its end, and the browser runs the callback of a timer
\* that has expired.
FairSpecUml == SpecUml /\ WF_vars(ExecMatch) /\ WF_vars(ExecNull) /\ WF_vars(TimerFires)

(***************************************************************************)
(* C19: every change of plantUMLCode sets isRendering, cancels the timer of *)
(* the previous change and starts a new timer of 500 ms, so at most one     *)
(* timer is pending; diagramUrl is written only when a timer fires and then *)
(* is the URL generated from the latest code; once the code stops changing  *)
(* the editor reaches isRendering = false with diagramUrl generated from    *)
(* the current code.                                                        *)
(***************************************************************************)
UrlOfCode(code) ==
    IF code = Unencodable THEN <<>>
    ELSE <<"https://www.plantuml.com/plantuml/svg/", <<"deflate+encode64", code>>>>

PreviewDebounced ==
    /\ [][(editorMounted' /\ plantUMLCode' # plantUMLCode) =>
             (isRendering' /\ timers' = { [code |-> plantUMLCode', delay |-> 500] })]_vars
    /\ [](Cardinality(timers) <= 1)
    /\ [][(editorMounted' /\ diagramUrl' # diagramUrl) =>
             (timers # {} /\ timers' = {} /\ diagramUrl' = UrlOfCode(plantUMLCode'))]_vars
    /\ \A c \in Codes :
          <>[](editorMounted /\ plantUMLCode = c) =>
             <>[](~isRendering /\ diagramUrl = UrlOfCode(c))

\* the code was changed again after the preview of an earlier change had been
\* written: the timer of the latest code is the only one pending
CodeChangedAfterPreview ==
    /\ editorMounted
    /\ plantUMLCode = ""
    /\ isRendering
    /\ timers = { [code |-> "", delay |-> 500] }
    /\ diagramUrl = UrlOfCode("@startuml A -> B @enduml")

(***************************************************************************)
(* C17: no export the user triggers ends without a success or a failure     *)
(* notification, and no failure of an export is left uncaught.              *)
(***************************************************************************)
ExportEndsNotified ==
    exportRun.stage = "ended" =>
        (exportRun.notice \in {"success", "failure"} /\ ~escaped)

(***************************************************************************)
(* C21: matches are found left to right and do not overlap; each matched    *)
(* occurrence starts with "{{", ends at the first "}}" that follows its     *)
(* opening and has no "}" in between, so no returned name contains "}",     *)
(* and "{{}}" is not a match.                                               *)
(***************************************************************************)
HasBrace(s) == \E i \in 1..Len(s) : s[i] = "}"

\* "{{}}{{a}}"
EmptyThenName == <<"{", "{", "}", "}", "{", "{", "a", "}", "}">>

MatchesLeftToRightUntilFirstClose ==
    /\ [](\A o \in occurrences :
             /\ PairAt(template, o.index, "{", "{")
             /\ PairAt(template, o.end - 2, "}", "}")
             /\ o.end - o.index > 4
             /\ \A k \in (o.index + 2)..(o.end - 3) : CharAt(template, k) # "}"
             /\ ~HasBrace(o.name))
    /\ [](\A o, q \in occurrences : o = q \/ o.end <= q.index \/ q.end <= o.index)
    /\ [](\A i \in 1..Len(placeholders) : ~HasBrace(placeholders[i]))
    /\ [](\A i \in 1..Len(shownPlaceholders) : ~HasBrace(shownPlaceholders[i]))
    /\ []((pc = "done" /\ template = <<"{", "{", "}", "}">>) => shownPlaceholders = <<>>)
    /\ [][\A o \in occurrences' \ occurrences :
             \A q \in occurrences : q.end <= o.index]_vars

\* "{{}}" was passed over and the placeholder after it found
EmptyBracesPassedOver ==
    /\ pc = "done"
    /\ template = EmptyThenName
    /\ shownPlaceholders = << <<"a">> >>
    /\ occurrences = { [index |-> 4, end |-> 9, name |-> <<"a">>] }

(***************************************************************************)
(* PlantUMLEditor: the saved diagrams (PlantUMLEditor.tsx lines 56-111).    *)
(***************************************************************************)
\* number of saved diagrams
MaxSaved == 2
\* number of milliseconds that pass
MaxTicks == 2

\* the names the user types into the name field (line 268)
DiagramNames == { <<>>, <<" ">>, <<"d">> }

\* the codes the user types while working with saved diagrams
LibraryCodes == { DEFAULT_PLANTUML, "" }

Digit(d) == CASE d = 0 -> "0" [] d = 1 -> "1" [] d = 2 -> "2" [] d = 3 -> "3"
              [] d = 4 -> "4" [] d = 5 -> "5" [] d = 6 -> "6" [] d = 7 -> "7"
              [] d = 8 -> "8" [] d = 9 -> "9"

RECURSIVE NumberToString(_)
\* Number.prototype.toString of a natural number: its decimal digits
NumberToString(n) == IF n < 10 THEN <<Digit(n)>> ELSE NumberToString(n \div 10) \o <<Digit(n % 10)>>

\* new Date().toISOString() at instant n
ToISOString(n) == <<"iso", n>>

MissingNameToast == [title |-> "Missing Name", about |-> <<>>]
DiagramSavedToast(name) == [title |-> "Diagram Saved", about |-> name]
DiagramDeletedToast == [title |-> "Diagram Deleted", about |-> <<>>]

\* A millisecond passes.
Tick ==
    /\ clock < StartInstant + MaxTicks
    /\ clock' = clock + 1
    /\ UNCHANGED <<extractVars, dialogVars, toasts, generatorVars, viewerVars, escaped,
                   editorVars, exportRun, savedDiagrams, currentDiagramName, storage,
                   copyVars, exampleVars>>

\* The name field's onChange (line 268).
SetCurrentDiagramName(n) ==
    /\ pc = "done"
    /\ editorMounted
    /\ currentDiagramName' = n
    /\ UNCHANGED <<extractVars, dialogVars, toasts, generatorVars, viewerVars, escaped,
                   editorVars, exportRun, savedDiagrams, storage, clock,
                   copyVars, exampleVars>>

\* handleSaveDiagram (lines 64-90).  stored: localStorage.setItem returns;
\* otherwise it throws (the quota is used up) after setSavedDiagrams has been
\* called, and the exception leaves the click handler.
HandleSaveDiagram(stored) ==
    /\ pc = "done"
    /\ editorMounted
    /\ IF Trim(currentDiagramName) = <<>>
       THEN /\ toasts' = <<MissingNameToast>>
            /\ UNCHANGED <<savedDiagrams, currentDiagramName, storage, escaped>>
       ELSE /\ Len(savedDiagrams) < MaxSaved
            /\ \E updatedDiagrams \in
                   { Append(savedDiagrams,
                            [id |-> NumberToString(clock), name |-> currentDiagramName,
                             content |-> plantUMLCode, createdAt |-> ToISOString(clock)]) } :
                  /\ savedDiagrams' = updatedDiagrams
                  /\ IF stored
                     THEN /\ storage' = Some(JSONStringify(updatedDiagrams))
                          /\ currentDiagramName' = <<>>
                          /\ toasts' = <<DiagramSavedToast(currentDiagramName)>>
                          /\ UNCHANGED escaped
                     ELSE /\ escaped' = TRUE
                          /\ UNCHANGED <<storage, currentDiagramName, toasts>>
    /\ UNCHANGED <<extractVars, dialogVars, generatorVars, viewerVars, editorVars, exportRun,
                   clock, copyVars, exampleVars>>

\* the diagrams whose id is not the given one (line 98)
WithoutId(list, id) == SelectSeq(list, LAMBDA d : d.id # id)

\* handleDeleteDiagram of the i-th card (lines 97-106, 295).
HandleDeleteDiagram(i, stored) ==
    /\ pc = "done"
    /\ editorMounted
    /\ i \in DOMAIN savedDiagrams
    /\ \E updatedDiagrams \in { WithoutId(savedDiagrams, savedDiagrams[i].id) } :
          /\ savedDiagrams' = updatedDiagrams
          /\ IF stored
             THEN /\ storage' = Some(JSONStringify(updatedDiagrams))
                  /\ toasts' = <<DiagramDeletedToast>>
                  /\ UNCHANGED escaped
             ELSE /\ escaped' = TRUE
                  /\ UNCHANGED <<storage, toasts>>
    /\ UNCHANGED <<extractVars, dialogVars, generatorVars, viewerVars, editorVars, exportRun,
                   currentDiagramName, clock, copyVars, exampleVars>>

\* setPlantUMLCode(c) by a handler that also sets the name: the effect of
\* lines 45-54 runs again only when the code has changed.
CodeAndName(c, n) ==
    /\ pc = "done"
    /\ editorMounted
    /\ plantUMLCode' = c
    /\ currentDiagramName' = n
    /\ IF c # plantUMLCode
       THEN isRendering' = TRUE /\ timers' = { Timer(c) }
       ELSE UNCHANGED <<isRendering, timers>>
    /\ UNCHANGED <<extractVars, dialogVars, toasts, generatorVars, viewerVars, escaped,
                   editorMounted, diagramUrl, exportRun, savedDiagrams, storage, clock,
                   copyVars, exampleVars>>

\* handleLoadDiagram of the i-th card (lines 92-95, 306)
HandleLoadDiagram(i) ==
    /\ i \in DOMAIN savedDiagrams
    /\ CodeAndName(savedDiagrams[i].content, savedDiagrams[i].name)

\* handleNewDiagram (lines 108-111)
HandleNewDiagram == CodeAndName(DEFAULT_PLANTUML, <<>>)

NextLibrary ==
    \/ SelectEditorTab
    \/ SelectGeneratorTab
    \/ Tick
    \/ \E c \in LibraryCodes : SetPlantUMLCode(c)
    \/ \E n \in DiagramNames : SetCurrentDiagramName(n)
    \/ \E stored \in BOOLEAN : HandleSaveDiagram(stored)
    \/ \E i \in 1..MaxSaved, stored \in BOOLEAN : HandleDeleteDiagram(i, stored)
    \/ \E i \in 1..MaxSaved : HandleLoadDiagram(i)
    \/ HandleNewDiagram
    \/ ExecMatch
    \/ ExecNull

SpecLibrary == Init /\ [][NextLibrary]_vars

(***************************************************************************)
(* C22: while the editor is mounted the list stored under                   *)
(* 'plantuml-diagrams' is the in-memory list savedDiagrams (no item stands  *)
(* for the empty list); an accepted save appends one entry with the current *)
(* name and code to both, a rejected save changes neither.                  *)
(***************************************************************************)
StoredList == IF storage.isNull THEN <<>> ELSE storage.value[2]

StoredListIsSavedDiagrams ==
    /\ [](editorMounted => StoredList = savedDiagrams)
    /\ [][\A stored \in BOOLEAN : HandleSaveDiagram(stored) =>
             IF Blank(currentDiagramName)
             THEN savedDiagrams' = savedDiagrams /\ storage' = storage
             ELSE /\ Len(savedDiagrams') = Len(savedDiagrams) + 1
                  /\ SubSeq(savedDiagrams', 1, Len(savedDiagrams)) = savedDiagrams
                  /\ savedDiagrams'[Len(savedDiagrams')].name = currentDiagramName
                  /\ savedDiagrams'[Len(savedDiagrams')].content = plantUMLCode
                  /\ DOMAIN savedDiagrams'[Len(savedDiagrams')] =
                        {"id", "name", "content", "createdAt"}]_vars

(***************************************************************************)
(* C25: handleDeleteDiagram removes the one diagram the user chose and      *)
(* keeps the others in their order; the ids of the saved diagrams are       *)
(* pairwise distinct.                                                       *)
(***************************************************************************)
DeleteRemovesOne ==
    /\ [](\A i, j \in DOMAIN savedDiagrams : savedDiagrams[i].id = savedDiagrams[j].id => i = j)
    /\ [][\A i \in 1..MaxSaved, stored \in BOOLEAN :
             HandleDeleteDiagram(i, stored) =>
                savedDiagrams' = SubSeq(savedDiagrams, 1, i - 1) \o
                                 SubSeq(savedDiagrams, i + 1, Len(savedDiagrams))]_vars

(***************************************************************************)
(* OutputViewer: handleCopy and the copied indicators (OutputViewer.tsx     *)
(* lines 22, 64-84, 280-287, 308-315).                                      *)
(***************************************************************************)
\* number of copies that wait for the clipboard or for their timer
MaxCopies == 2

\* setTimeout(..., 2000), line 76
CopiedDelay == 2000

CopiedToast(type) == [title |-> "Copied!", about |-> type]
CopyFailedToast == [title |-> "Copy Failed", about |-> ""]

\* { ...states, [type]: value } (lines 67, 75)
WithFlag(states, type, value) == [states EXCEPT ![type] = value]

\* A Copy button is clicked (lines 280, 308): handleCopy of this render, which
\* closes over this render's copiedStates, calls writeText and waits (line 66).
HandleCopy(type) ==
    /\ pc = "done"
    /\ ~result.isNull
    /\ Len(copying) + Len(copyTimers) < MaxCopies
    /\ copying' = Append(copying, [type |-> type, copiedStates |-> copiedStates,
                                   live |-> TRUE])
    /\ UNCHANGED <<extractVars, dialogVars, toasts, generatorVars, viewerVars, escaped,
                   editorVars, exportRun, libraryVars, copiedStates, copyTimers,
                   exampleVars>>

\* writeText of the oldest waiting call settles.  written: lines 67-76 set the
\* flag of the type, show the toast and start the timer; otherwise the catch
\* block shows the failure toast (lines 77-83).  setCopiedStates of an
\* unmounted viewer does nothing.
ClipboardSettles(written) ==
    /\ pc = "done"
    /\ copying # <<>>
    /\ copying' = Tail(copying)
    /\ IF written
       THEN /\ copiedStates' = IF Head(copying).live
                               THEN WithFlag(Head(copying).copiedStates, Head(copying).type, TRUE)
                               ELSE copiedStates
            /\ toasts' = <<CopiedToast(Head(copying).type)>>
            /\ copyTimers' = Append(copyTimers, Head(copying) @@ [delay |-> CopiedDelay])
       ELSE /\ toasts' = <<CopyFailedToast>>
            /\ UNCHANGED <<copiedStates, copyTimers>>
    /\ UNCHANGED <<extractVars, dialogVars, generatorVars, viewerVars, escaped,
                   editorVars, exportRun, libraryVars, exampleVars>>

\* The callback of the oldest timer runs (line 75); the timers have the same
\* delay and run in the order they were started.
CopiedTimerFires ==
    /\ pc = "done"
    /\ copyTimers # <<>>
    /\ copyTimers' = Tail(copyTimers)
    /\ copiedStates' = IF Head(copyTimers).live
                       THEN WithFlag(Head(copyTimers).copiedStates, Head(copyTimers).type, FALSE)
                       ELSE copiedStates
    /\ UNCHANGED <<extractVars, dialogVars, toasts, generatorVars, viewerVars, escaped,
                   editorVars, exportRun, libraryVars, copying, exampleVars>>

\* The user types the prompt of the first generation.
FirstPrompt(p) == result.isNull /\ ~isGenerating /\ SetPrompt(p)

\* The user starts the first generation.
FirstGenerate == result.isNull /\ ClickGenerate

\* One generation gives the viewer its result; then the copies.
NextCopy ==
    \/ \E p \in Prompts : FirstPrompt(p)
    \/ FirstGenerate
    \/ GenerationResolves
    \/ \E type \in CopyTypes : HandleCopy(type)
    \/ \E written \in BOOLEAN : ClipboardSettles(written)
    \/ CopiedTimerFires
    \/ ExecMatch
    \/ ExecNull

SpecCopy == Init /\ [][NextCopy]_vars

(***************************************************************************)
(* C23: a successful handleCopy sets the copied flag of its type, and once  *)
(* every started copy has settled and every timer of 2 seconds has run,     *)
(* every copied flag is false.                                              *)
(***************************************************************************)
NoIndicatorStuck ==
    /\ [][ClipboardSettles(TRUE) => copiedStates'[Head(copying).type]]_vars
    /\ []((copying = <<>> /\ copyTimers = <<>>) => \A type \in CopyTypes : ~copiedStates[type])

(***************************************************************************)
(* C24: handleReset leaves template and result null, and result stays null  *)
(* until a generation started after the reset completes: a generation that  *)
(* was waiting when Reset was clicked does not fill the output again.       *)
(***************************************************************************)
ResetHoldsUntilNewGeneration ==
    /\ [][HandleReset => (appliedTemplate'.isNull /\ result'.isNull)]_vars
    /\ [][(result.isNull /\ ~result'.isNull) =>
             (GenerationResolves /\ pendingAtReset = 0)]_vars

(***************************************************************************)
(* C27: whenever the 'Template Applied' toast reads 'Using template from    *)
(* <file name>', the template passed to onTemplateUpload is the text        *)
(* content of the file of that name.                                        *)
(***************************************************************************)
NamedFileIsApplied ==
    [][(HandleApplyTemplate /\ Len(toasts') = 2 /\ Len(toasts'[2].about) = 2) =>
          \E f \in Files : /\ f.name = toasts'[2].about[2]
                           /\ appliedTemplate' = [isNull |-> FALSE, value |-> f.content]]_vars

(***************************************************************************)
(* ArchitectureGenerator: what it renders for "template &&"                 *)
(* (TemplateUpload.tsx lines 379-384, 389-397), inside the content of the   *)
(* tab "ai-generator" (lines 363-474), and the template dialog together     *)
(* with the two tabs.                                                       *)
(***************************************************************************)
\* a "string | null" state used as a condition: neither null nor ''
Truthy(state) == ~state.isNull /\ state.value # <<>>

\* the Reset Template button (lines 379-384)
ResetButtonShown == ~editorMounted /\ Truthy(appliedTemplate)

\* the 'Custom Template Active' badge (lines 389-397)
TemplateBadgeShown == ~editorMounted /\ Truthy(appliedTemplate)

\* the texts of the textarea in the specification of the template and the tabs
TemplateTexts == { <<>>, <<" ">>, <<"a">> }

NextTemplate ==
    \/ OpenDialog
    \/ CloseDialog
    \/ EditTemplate(TemplateTexts)
    \/ HandleApplyTemplate
    \/ HandleReset
    \/ SelectEditorTab
    \/ SelectGeneratorTab
    \/ ExecMatch
    \/ ExecNull

SpecTemplate == Init /\ [][NextTemplate]_vars

(***************************************************************************)
(* C29 as stated: the applied template is null or a text with at least one  *)
(* non-whitespace character; it is set only by a successful Apply and       *)
(* cleared only by Reset; the 'Custom Template Active' badge and the Reset  *)
(* Template button are shown exactly when it is not null.                   *)
(***************************************************************************)
AppliedTemplateNullOrText ==
    /\ [](appliedTemplate.isNull \/ ~Blank(appliedTemplate.value))
    /\ [](TemplateBadgeShown <=> ~appliedTemplate.isNull)
    /\ [](ResetButtonShown <=> ~appliedTemplate.isNull)
    /\ [][appliedTemplate' # appliedTemplate =>
             IF appliedTemplate'.isNull THEN HandleReset
             ELSE HandleApplyTemplate /\ ~Blank(templateContent)]_vars

(***************************************************************************)
(* C29 amended: the applied template is null or a text with at least one    *)
(* non-whitespace character; it is set only by a successful Apply and       *)
(* cleared only by Reset; while the tab "ai-generator" is selected the      *)
(* badge and the Reset Template button are shown exactly when it is not     *)
(* null, and while the tab "uml-editor" is selected neither is shown.       *)
(***************************************************************************)
AppliedTemplateShownOnGeneratorTab ==
    /\ [](appliedTemplate.isNull \/ ~Blank(appliedTemplate.value))
    /\ [](~editorMounted => (TemplateBadgeShown <=> ~appliedTemplate.isNull))
    /\ [](~editorMounted => (ResetButtonShown <=> ~appliedTemplate.isNull))
    /\ [](editorMounted => ~TemplateBadgeShown /\ ~ResetButtonShown)
    /\ [][appliedTemplate' # appliedTemplate =>
             IF appliedTemplate'.isNull THEN HandleReset
             ELSE HandleApplyTemplate /\ ~Blank(templateContent)]_vars

\* a typed template is applied, a whitespace-only text has been refused after
\* it, and the editor tab is selected: the template is still applied and
\* neither the badge nor the button is on the page
AppliedButEditorTabSelected ==
    /\ pc = "done"
    /\ editorMounted
    /\ appliedTemplate = [isNull |-> FALSE, value |-> <<"a">>]
    /\ ~ResetButtonShown
    /\ ~TemplateBadgeShown
    /\ toasts = <<EmptyTemplateToast>>

MaxExamples == 2

\* what the user types into the four fields of the form (lines 127-160)
ExampleTitles == { "", "Mine" }
ExampleDescriptions == { "", "notes" }
ExamplePromptTexts == { "", "A queue" }
ExampleTagTexts == { <<>>, <<" ", "a", ",", ",", " ", "b", " ">> }

RECURSIVE SplitComma(_)
\* String.prototype.split(','): the pieces between the commas, empty pieces
\* included; one empty piece for the empty text
SplitComma(s) ==
    IF \E i \in 1..Len(s) : s[i] = ","
    THEN LET i == CHOOSE k \in 1..Len(s) :
                     s[k] = "," /\ \A j \in 1..(k - 1) : s[j] # ","
         IN  <<SubSeq(s, 1, i - 1)>> \o SplitComma(SubSeq(s, i + 1, Len(s)))
    ELSE <<s>>

\* line 81: split(',').map(tag => tag.trim()).filter(Boolean); filter(Boolean)
\* drops the empty text
ParseTags(s) ==
    LET pieces == SplitComma(s)
        IsNonEmptyText(t) == t # <<>>
    IN  SelectSeq([i \in 1..Len(pieces) |-> Trim(pieces[i])], IsNonEmptyText)

\* the toasts of lines 68-72, 88-91, 96-99
MissingInformationToast == [title |-> "Missing Information", about |-> <<>>]
ExampleAddedToast == [title |-> "Example Added", about |-> <<>>]
ExampleRemovedToast == [title |-> "Example Removed", about |-> <<>>]

\* DialogTrigger, onOpenChange(true) (lines 110-116).
OpenExampleDialog ==
    /\ pc = "done"
    /\ ~editorMounted
    /\ ~isDialogOpen
    /\ ~isExampleDialogOpen
    /\ isExampleDialogOpen' = TRUE
    /\ UNCHANGED <<examples, newExample, libraryVars, copyVars, extractVars, dialogVars,
                   toasts, generatorVars, viewerVars, escaped, editorVars, exportRun>>

\* Cancel (line 164) or onOpenChange(false) (line 110): the form keeps what
\* was typed.
CloseExampleDialog ==
    /\ pc = "done"
    /\ isExampleDialogOpen
    /\ isExampleDialogOpen' = FALSE
    /\ UNCHANGED <<examples, newExample, libraryVars, copyVars, extractVars, dialogVars,
                   toasts, generatorVars, viewerVars, escaped, editorVars, exportRun>>

\* onChange of a field of the form (lines 130, 139, 148, 158).
SetNewExample(field, value) ==
    /\ pc = "done"
    /\ isExampleDialogOpen
    /\ value # newExample[field]
    /\ newExample' = [newExample EXCEPT ![field] = value]
    /\ UNCHANGED <<examples, isExampleDialogOpen, libraryVars, copyVars, extractVars,
                   dialogVars, toasts, generatorVars, viewerVars, escaped, editorVars,
                   exportRun>>

\* handleAddExample (lines 66-92), the button of line 167.
HandleAddExample ==
    /\ pc = "done"
    /\ isExampleDialogOpen
    /\ IF newExample.title = "" \/ newExample.prompt = ""
       THEN /\ toasts' = <<MissingInformationToast>>
            /\ UNCHANGED exampleVars
       ELSE /\ Len(examples) < Len(DefaultExamples) + MaxExamples
            /\ examples' = Append(examples,
                                  [id |-> NumberToString(clock),
                                   title |-> newExample.title,
                                   description |-> newExample.description,
                                   prompt |-> newExample.prompt,
                                   tags |-> ParseTags(newExample.tags)])
            /\ newExample' = EmptyExample
            /\ isExampleDialogOpen' = FALSE
            /\ toasts' = <<ExampleAddedToast>>
    /\ UNCHANGED <<libraryVars, copyVars, extractVars, dialogVars, generatorVars,
                   viewerVars, escaped, editorVars, exportRun>>

\* every card gets a delete button
DeleteButtonShownAlways(i) == TRUE

\* line 186: the delete button of the i-th card is rendered when no default
\* example has the card's id
DeleteButtonShown(i) ==
    ~\E d \in 1..Len(DefaultExamples) : DefaultExamples[d].id = examples[i].id

\* examples.filter(ex => ex.id !== id) (line 95)
WithoutExampleId(list, id) ==
    LET Keeps(ex) == ex.id # id IN SelectSeq(list, Keeps)

\* handleDeleteExample (lines 94-100), called by the delete button of the
\* i-th card (lines 187-197); the open dialog is modal.
HandleDeleteExample(i) ==
    /\ pc = "done"
    /\ ~editorMounted
    /\ ~isDialogOpen
    /\ ~isExampleDialogOpen
    /\ i \in 1..Len(examples)
    /\ DeleteButtonShown(i)
    /\ examples' = WithoutExampleId(examples, examples[i].id)
    /\ toasts' = <<ExampleRemovedToast>>
    /\ UNCHANGED <<isExampleDialogOpen, newExample, libraryVars, copyVars, extractVars,
                   dialogVars, generatorVars, viewerVars, escaped, editorVars, exportRun>>

NextExamples ==
    \/ SelectEditorTab
    \/ SelectGeneratorTab
    \/ Tick
    \/ OpenExampleDialog
    \/ CloseExampleDialog
    \/ \E v \in ExampleTitles : SetNewExample("title", v)
    \/ \E v \in ExampleDescriptions : SetNewExample("description", v)
    \/ \E v \in ExamplePromptTexts : SetNewExample("prompt", v)
    \/ \E v \in ExampleTagTexts : SetNewExample("tags", v)
    \/ HandleAddExample
    \/ \E i \in 1..(Len(DefaultExamples) + MaxExamples) : HandleDeleteExample(i)
    \/ ExecMatch
    \/ ExecNull

SpecExamples == Init /\ [][NextExamples]_vars

(***************************************************************************)
(* C28: after any sequence of the add and delete actions the page offers,   *)
(* the list of examples starts with the four default examples in their      *)
(* original order; only examples the user added can be deleted; an add that *)
(* is rejected (empty title or empty prompt) leaves the list unchanged and  *)
(* the dialog open.                                                         *)
(***************************************************************************)
DefaultExamplesStay ==
    /\ [](/\ Len(examples) >= Len(DefaultExamples)
          /\ SubSeq(examples, 1, Len(DefaultExamples)) = DefaultExamples)
    /\ [][\A i \in 1..(Len(DefaultExamples) + MaxExamples) :
             HandleDeleteExample(i) =>
                /\ i > Len(DefaultExamples)
                /\ \A k \in 1..Len(DefaultExamples) : examples'[k] = examples[k]
                /\ Len(examples') < Len(examples)]_vars
    /\ [][(HandleAddExample /\ (newExample.title = "" \/ newExample.prompt = "")) =>
             (/\ examples' = examples
              /\ isExampleDialogOpen /\ isExampleDialogOpen'
              /\ newExample' = newExample
              /\ toasts' = <<MissingInformationToast>>)]_vars

\* an example of the user is in the list behind the default ones, and an add
\* with a title and no prompt has just been rejected: the dialog is open and
\* the form holds what was typed
RejectedAddAfterAnAdd ==
    /\ pc = "done"
    /\ Len(examples) = Len(DefaultExamples) + 1
    /\ examples[5].title = "Mine"
    /\ examples[5].tags = << <<"a">>, <<"b">> >>
    /\ DeleteButtonShown(5)
    /\ isExampleDialogOpen
    /\ newExample.title = "Mine"
    /\ newExample.prompt = ""
    /\ toasts = <<MissingInformationToast>>

====
